---- MODULE Spec2Model ----
(***************************************************************************)
(* A model of the Tello remote-control client: the TelloRC session        *)
(* (tello_rc.py: connect, the fly loop, shutdown and the three receiver   *)
(* threads) and the RemoteControl input mapper (rc_controls.py).          *)
(***************************************************************************)
EXTENDS Integers, Sequences, FiniteSets, TLC

\* ------------------------------------------------------------------ bounds
MaxTicks == 2        \* ticks of the fly loop in one run
MaxDgrams == 1       \* datagrams handled on the command log in one run
MaxGarbled == 1      \* further undecodable telemetry datagrams in a run of SpecGarbled
MaxEvents == 1       \* events of one kind drained by one update() of the mapper run
MaxCalls == 3        \* update()/next_action() calls of the mapper run
TickSeconds == 6     \* seconds between two readings of perf_counter()
Scale == 2           \* math.log is computed to 1 / Scale, rounded down

\* ------------------------------------------------------- program constants
MAX_TIMEOUT == 5     \* seconds a command waits for its response
ConnectAttempts == 5 \* __connect(attempts=5)
DefaultAggression == 2   \* RemoteControl.__init__(aggression=2, ...)
DefaultAccTime == 10     \* RemoteControl.__init__(..., acc_time=10), seconds
FramesPerSecond == 30    \* frame_delta = 1/30

\* texts are sequences of lexemes; Python's None is a text no datagram can hold
None == <<"None">>
TIMED_OUT == <<"TIMED OUT">>
DECODE_ERROR == <<"Decode Error">>
OK == <<"ok">>
NoAction == "None"   \* next_action() returning None
NoFrame == "None"    \* last_frame = None

\* ------------------------------------------------------------------- state
VARIABLES
  pc,            \* position of the main thread (fly / connect / shutdown)
  ret,           \* the call site the running __send_cmd returns to
  res,           \* the value the last __send_cmd returned
  attempts,      \* iterations of __connect's for loop started so far
  elapsed,       \* perf_counter() - start of the running __send_cmd, in seconds
  active, stream_active, connected, flying,
  cmd_log,       \* sequence of [msg, resp]
  sockClosed,    \* send_channel.close() was called
  last_state,    \* [some |-> BOOLEAN, map |-> set of <<label, val>>]
  last_frame,    \* NoFrame or a frame
  recv_pc, recv_tgt, recv_val,   \* the command receiver thread
  state_pc,      \* the telemetry receiver thread
  video_pc,      \* the video receiver thread
  dgrams, ticks, \* counters of the bounded inputs
  garbled,       \* undecodable telemetry datagrams still to come, beyond MaxDgrams
  frame_due,     \* perf_counter() - run_timer >= frame_delta
  spaced,        \* frame_delta has passed since the previous tick of fly
  late,          \* the last record's response is the reply to an earlier command
  mode, map, action_map, action_q,         \* RemoteControl
  aggression, acc_time,                    \* its curve: base, and ramp in units of delta
  held_map, current_rc,                    \* held durations in units of delta; <<x, z, y, r>>
  rc_sent,       \* the last "rc ..." datagram: [sent, vals]
  matched, returned, lastRet, calls,       \* record of the mapper's inputs and results
  since_switch   \* update() calls of that record since the mode last changed

vars == <<pc, ret, res, attempts, elapsed, active, stream_active, connected,
          flying, cmd_log, sockClosed, last_state, last_frame, recv_pc,
          recv_tgt, recv_val, state_pc, video_pc, dgrams, garbled, ticks, frame_due, spaced,
          late, mode, map, action_map, action_q, aggression, acc_time, held_map, current_rc,
          rc_sent, matched, returned, lastRet, calls, since_switch>>

mainVars == <<pc, ret, res, attempts, elapsed>>
flagVars == <<active, stream_active, connected, flying>>
recvVars == <<recv_pc, recv_tgt, recv_val>>
ctlVars == <<aggression, acc_time, held_map, current_rc, rc_sent>>
rcVars == <<mode, map, action_map, action_q, ctlVars>>
histVars == <<matched, returned, lastRet, calls, since_switch>>
timeVars == <<frame_due, spaced>>

\* ------------------------------------------------ rc_controls.py: tables
K_SPACE == 32
K_p == 112
K_ESCAPE == 27
K_a == 97

KeyCodes == {K_SPACE, K_p, K_ESCAPE, K_a}
Buttons == {6, 15, 1, 0}

\* _Keyboard_Actions and _Xbox_Action, as sets of <<code, action>>
Keyboard_Actions == {<<K_SPACE, "TAKEOFF">>, <<K_p, "PICTURE">>, <<K_ESCAPE, "STOP">>}
Xbox_Action == {<<6, "TAKEOFF">>, <<15, "PICTURE">>, <<1, "STOP">>}

ActionTable(name) ==
  IF name = "_Keyboard_Actions" THEN Keyboard_Actions ELSE Xbox_Action

InTable(name, code) == \E e \in ActionTable(name) : e[1] = code
TableGet(name, code) == (CHOOSE e \in ActionTable(name) : e[1] = code)[2]

\* the input events pygame hands to update()
DeviceEvents == {"JOYDEVICEADDED", "JOYDEVICEREMOVED"}
DownEvents ==
  [type : {"KEYDOWN"}, code : KeyCodes] \cup [type : {"JOYBUTTONDOWN"}, code : Buttons]

SeqsUpTo(S, n) == UNION {[1..k -> S] : k \in 0..n}

\* what one tick of a session finds in pygame's queue: no event or one event of
\* each kind
TickDevices == {<<>>} \cup {<<e>> : e \in DeviceEvents}
TickEvents == {<<>>} \cup {<<e>> : e \in DownEvents}

\* the logical directions of held_map
Keys == {"XM", "XP", "YM", "YP", "ZP", "ZM", "RL", "RR"}

ZeroHeld == [k \in Keys |-> 0]

\* self.held_map = {"XM": 0.0, ...} of the switch to the keyboard
KeepHeld(h) == h

ResetHeld(h) == ZeroHeld

\* the mapper's fields update() works on; since is since_switch
MapperState ==
  [mode |-> mode, map |-> map, action_map |-> action_map, held_map |-> held_map,
   since |-> since_switch]

\* update(): one JOYDEVICEADDED / JOYDEVICEREMOVED event
SwitchMode(st, ev) ==
  IF ev = "JOYDEVICEADDED" /\ st.mode = "keyboard"
    THEN [st EXCEPT !.mode = "joystick", !.map = "_Xbox_FPS_Map",
                    !.action_map = "_Xbox_Action", !.since = 0]
  ELSE IF ev = "JOYDEVICEREMOVED" /\ st.mode = "joystick"
    THEN [st EXCEPT !.mode = "keyboard", !.map = "_Keyboard_Map",
                    !.action_map = "_Keyboard_Actions",
                    !.held_map = ResetHeld(st.held_map), !.since = 0]
  ELSE st

RECURSIVE SwitchModes(_, _)
SwitchModes(st, devs) ==
  IF devs = <<>> THEN st ELSE SwitchModes(SwitchMode(st, Head(devs)), Tail(devs))

\* __detect_actions(): the action one input-down event appends, or None
EventAction(m, am, ev) ==
  IF m = "joystick" /\ ev.type = "JOYBUTTONDOWN"
    THEN (IF InTable(am, ev.code) THEN TableGet(am, ev.code) ELSE NoAction)
  ELSE IF m = "keyboard" /\ ev.type = "KEYDOWN"
    THEN (IF InTable(am, ev.code) THEN TableGet(am, ev.code) ELSE NoAction)
  ELSE NoAction

\* __detect_actions(): the queue after the drained events
RECURSIVE DetectActions(_, _, _, _)
DetectActions(m, am, q, evs) ==
  IF evs = <<>> THEN q
  ELSE LET a == EventAction(m, am, Head(evs))
       IN DetectActions(m, am, IF a = NoAction THEN q ELSE Append(q, a), Tail(evs))

\* next_action(): <<returned value, queue left>>
NextActionLifo(q) ==
  IF Len(q) = 0 THEN <<NoAction, q>> ELSE <<q[Len(q)], SubSeq(q, 1, Len(q) - 1)>>

NextActionOf(q) ==
  IF Len(q) = 0 THEN <<NoAction, q>> ELSE <<Head(q), Tail(q)>>

\* ------------------------------------- rc_controls.py: the control vector
\* _BUTTON, _AXIS
BUTTON == 0
AXIS == 1

\* _Keyboard_Map and _Xbox_FPS_Map: the type, and the axis numbers of the stick
\* (which key of the keyboard stands for a direction is left to PressedSets)
Keyboard_Map == [Type |-> BUTTON]
Xbox_FPS_Map == [Type |-> AXIS, X |-> 0, Y |-> 3, Z |-> 1, RL |-> 4, RR |-> 5, R |-> 2]

MapTable(name) == IF name = "_Keyboard_Map" THEN Keyboard_Map ELSE Xbox_FPS_Map

Min(a, b) == IF a <= b THEN a ELSE b
Max(a, b) == IF a >= b THEN a ELSE b
Abs(a) == IF a < 0 THEN -a ELSE a

RECURSIVE Pow(_, _)
Pow(b, e) == IF e = 0 THEN 1 ELSE b * Pow(b, e - 1)

\* int(): truncation toward zero of the quotient n / d, d > 0
Trunc(n, d) == IF n >= 0 THEN n \div d ELSE -((-n) \div d)

\* math.log(n / d, base) for n / d >= 1, in units of 1 / Scale and rounded down:
\* the largest p with base^(p / Scale) <= n / d
RECURSIVE LogSteps(_, _, _, _)
LogSteps(n, d, base, p) ==
  IF p < 2 * Scale /\ Pow(base, p + 1) * Pow(d, Scale) <= Pow(n, Scale)
    THEN LogSteps(n, d, base, p + 1)
    ELSE p

LogFloor(n, d, base) == LogSteps(n, d, base, 0)

\* t = ((self.aggression - 1) * t) + 1, for t = tn / td: the numerator over td
CurveArgFull(tn, td, a) == a * tn + td

CurveArg(tn, td, a) == (a - 1) * tn + td

\* __acc_curve(t) for t = tn / td, in units of 1 / Scale
AccCurve(tn, td, a) ==
  LET neg == IF tn < 0 THEN -1 ELSE 1
      t1 == Max(0, Min(td, Abs(tn)))
  IN neg * LogFloor(CurveArg(t1, td, a), td, a)

\* __btn_acc_curve(t): t held, clamped to [0, acc_time] and divided by acc_time
BtnAccCurve(t, T, a) == AccCurve(Max(0, Min(t, T)), T, a)

\* _dz_axis_clamp(d_zone, val), values in thousandths
DzAxisClamp(dz, val) == IF dz < Abs(val) /\ Abs(val) < dz THEN 0 ELSE val

\* rc_state[i] = max(-100, min(100, int(100 * rc_state[i]))) for the value
\* n / d; v names the value of rc_state[i], read once
Unclamped(n, d) == Trunc(100 * n, d)

Align(n, d) ==
  CHOOSE r \in {Max(-100, Min(100, Trunc(100 * v, d))) : v \in {n}} : TRUE

\* the held durations after __compute_rc's loop over the keys, delta being the
\* unit of time
HeldAfter(held, pressed) ==
  [k \in Keys |-> IF k \in pressed THEN held[k] + 1 ELSE 0]

\* the vector of the button branch of __compute_rc: <<x, z, y, r>>
ButtonRc(held, T, a) ==
  << Align(BtnAccCurve(held["XP"], T, a) - BtnAccCurve(held["XM"], T, a), Scale),
     Align(BtnAccCurve(held["ZP"], T, a) - BtnAccCurve(held["ZM"], T, a), Scale),
     Align(BtnAccCurve(held["YP"], T, a) - BtnAccCurve(held["YM"], T, a), Scale),
     Align(BtnAccCurve(held["RR"], T, a) - BtnAccCurve(held["RL"], T, a), Scale) >>

\* rr_val - rl_val of the branch for a map without "R": ((1 + rr) - (1 + rl)) / 2,
\* in two-thousandths
TriggerDiff(m, axes) == (1000 + axes[m.RR]) - (1000 + axes[m.RL])

\* the vector of the axis branch of __compute_rc: <<x, z, y, r>>
AxisRc(m, axes) ==
  << Align(DzAxisClamp(300, axes[m.X]), 1000),
     Align(-DzAxisClamp(300, axes[m.Z]), 1000),
     Align(-DzAxisClamp(300, axes[m.Y]), 1000),
     IF "R" \in DOMAIN m
       THEN Align(DzAxisClamp(300, axes[m.R]), 1000)
       ELSE Align(TriggerDiff(m, axes), 2000) >>

\* readings of stick.get_axis(0..5), in thousandths: at rest, deflected, and a
\* driver reporting beyond the nominal range
AxisRest == [i \in 0..5 |-> 0]
AxisFull == [i \in 0..5 |-> IF i \in {0, 5} THEN 1000 ELSE IF i \in {1, 4} THEN -1000
                            ELSE IF i = 2 THEN 305 ELSE -299]
AxisOver == [i \in 0..5 |-> IF i \in {0, 2, 4} THEN 1500 ELSE -1500]
AxisInputs == {AxisRest, AxisFull, AxisOver}

\* the directions whose key pg.key.get_pressed() reports down
PressedSets == {{}, {"XP"}, {"XP", "XM"}, {"RL"}}

\* what __compute_rc reads in the mode of map `name`: the keys down, or the stick
Reads(name, pressedSets, axisSets) ==
  IF MapTable(name).Type = BUTTON
    THEN {[pressed |-> p, axes |-> AxisRest] : p \in pressedSets}
    ELSE {[pressed |-> {}, axes |-> x] : x \in axisSets}

\* what one tick of a session reads from the keyboard and from the stick
TickPressed == {{}}
TickAxes == {AxisFull}

\* __compute_rc(delta) on the mapper fields sw, reading inp: the held durations
\* it leaves, and the vector it assigns given those durations
HeldNext(sw, inp) ==
  IF MapTable(sw.map).Type = BUTTON THEN HeldAfter(sw.held_map, inp.pressed)
  ELSE sw.held_map

RcOf(name, held, axes, T, a) ==
  IF MapTable(name).Type = BUTTON THEN ButtonRc(held, T, a)
  ELSE AxisRc(MapTable(name), axes)

Computed(sw, inp, T, a) ==
  [held_map |-> HeldNext(sw, inp),
   rc |-> RcOf(sw.map, HeldNext(sw, inp), inp.axes, T, a),
   since |-> sw.since + 1]

\* ------------------------------------------ tello_rc.py: telemetry parsing

\* str.strip(): leading and trailing white space removed
RECURSIVE LStrip(_)
LStrip(s) == IF s # <<>> /\ Head(s) = " " THEN LStrip(Tail(s)) ELSE s

RECURSIVE RStrip(_)
RStrip(s) ==
  IF s # <<>> /\ s[Len(s)] = " " THEN RStrip(SubSeq(s, 1, Len(s) - 1)) ELSE s

Strip(s) == RStrip(LStrip(s))

\* str.split(sep): the pieces between the separators (k + 1 pieces for k separators)
RECURSIVE SplitAcc(_, _, _, _)
SplitAcc(s, sep, cur, out) ==
  IF s = <<>> THEN Append(out, cur)
  ELSE IF Head(s) = sep THEN SplitAcc(Tail(s), sep, <<>>, Append(out, cur))
  ELSE SplitAcc(Tail(s), sep, Append(cur, Head(s)), out)

Split(s, sep) == SplitAcc(s, sep, <<>>, <<>>)

\* state[label] = val on a dict kept as a set of <<label, val>>
Put(st, label, val) == {p \in st : p[1] # label} \cup {<<label, val>>}

\* the for loop of __receive_state over the tokens: the dict built, and whether
\* item.split(':') failed to unpack into (label, val) (ValueError)
RECURSIVE ParseItems(_, _)
ParseItems(vals, st) ==
  IF vals = <<>> THEN [err |-> FALSE, map |-> st]
  ELSE IF Head(vals) = <<>> THEN ParseItems(Tail(vals), st)
  ELSE LET parts == Split(Head(vals), ":")
       IN IF Len(parts) # 2 THEN [err |-> TRUE, map |-> st]
          ELSE ParseItems(Tail(vals), Put(st, parts[1], parts[2]))

\* state = {}
MergedDict == last_state.map

FreshDict == {}

\* the dict __receive_state builds from one decoded datagram
ParseState(dgram) == ParseItems(Split(Strip(dgram), ";"), FreshDict)

\* bytes.decode('utf-8') fails on a datagram holding a byte that is no UTF-8
BadByte == "0xcc"
Decodable(dgram) == \A i \in 1..Len(dgram) : dgram[i] # BadByte

\* int(text) of fly's battery bar: digits, white space around them allowed
Digits == {"87", "120"}
IsIntText(t) == Strip(t) # <<>> /\ \A i \in 1..Len(Strip(t)) : Strip(t)[i] \in Digits

\* fly's rendering reads int(self.last_state['bat']): KeyError or ValueError
RenderFails(ls) ==
  /\ ls.some
  /\ \/ ~\E p \in ls.map : p[1] = <<"bat">>
     \/ \E p \in ls.map : p[1] = <<"bat">> /\ ~IsIntText(p[2])

\* datagrams the command socket can receive
CmdPayloads == {<<"ok">>, <<"ok", " ">>, <<"error">>, <<BadByte>>}

\* datagrams the telemetry socket can receive
TelemInputs ==
  { <<>>,
    <<"bat", ":", "87", ";", "time", ":", "120", ";">>,
    <<" ", "bat", ":", "120", " ">>,
    <<"bat">>,
    <<"bat", ":", "87", ":", "87">>,
    <<"time", ":", "120", ";", "bat">>,
    <<BadByte>> }


\* ---------------------------------------------------- TelloRC.__init__
InitState ==
  /\ pc = "fly" /\ ret = "none" /\ res = None /\ attempts = 0 /\ elapsed = 0
  /\ active = FALSE /\ stream_active = FALSE /\ connected = FALSE /\ flying = FALSE
  /\ cmd_log = <<>> /\ sockClosed = FALSE
  /\ last_state = [some |-> FALSE, map |-> {}] /\ last_frame = NoFrame
  /\ recv_pc = "idle" /\ recv_tgt = 0 /\ recv_val = None
  /\ state_pc = "idle" /\ video_pc = "idle"
  /\ dgrams = 0 /\ ticks = 0
  /\ frame_due = FALSE /\ spaced = FALSE
  /\ late = FALSE
  /\ mode = "keyboard" /\ map = "_Keyboard_Map" /\ action_map = "_Keyboard_Actions"
  /\ action_q = <<>>
  /\ matched = <<>> /\ returned = <<>> /\ calls = 0
  /\ lastRet = [op |-> "none", val |-> NoAction, before |-> 0]
  /\ held_map = ZeroHeld /\ since_switch = 0
  /\ current_rc = <<0, 0, 0, 0>>
  /\ rc_sent = [sent |-> FALSE, vals |-> <<0, 0, 0, 0>>]

\* RemoteControl(aggression, acc_time): the floors of the constructor
Floors(a, t) == [aggression |-> Max(2, a), acc_time |-> Max(1, t)]

\* fly's RemoteControl(): the defaults, the ramp in units of frame_delta
InitFly ==
  /\ InitState
  /\ aggression = Floors(DefaultAggression, DefaultAccTime).aggression
  /\ acc_time = Floors(DefaultAggression, DefaultAccTime).acc_time * FramesPerSecond

Init == InitFly /\ garbled = 0

\* the same, on a link that corrupts MaxGarbled more telemetry datagrams
InitGarbled == InitFly /\ garbled = MaxGarbled

\* a RemoteControl built by another caller, whose delta is one second
AggressionArgs == {1, 2, 10}
AccTimeArgs == {0, 1, 2}

InitRC ==
  /\ InitState
  /\ garbled = 0
  /\ \E a \in AggressionArgs, t \in AccTimeArgs :
       /\ aggression = Floors(a, t).aggression
       /\ acc_time = Floors(a, t).acc_time

Last(log) == log[Len(log)]

\* the test at the top of a receiver's loop, and the blocking call after it
Top(flag) == IF flag THEN "blocked" ELSE "done"

\* fly() returned or raised, or the caller's second shutdown() returned: the
\* script ends, and its daemon threads with it
Exited == pc \in {"failed", "done", "crashed", "repeated"}

\* -------------------------------------------------- TelloRC.__send_cmd
\* the call: the record is appended, the message sent (sendto on a closed
\* socket raises OSError), the wait begins
SendCmd(m, site) ==
  /\ cmd_log' = Append(cmd_log, [msg |-> m, resp |-> None])
  /\ late' = FALSE
  /\ elapsed' = 0
  /\ ret' = site
  /\ pc' = IF sockClosed THEN "crashed" ELSE "sc_wait"

\* where the main thread goes on when __send_cmd returns to `site`
After(site) ==
  CASE site = "connect" -> "conn_check"
    [] site = "streamon" -> "conn_finish"
    [] site = "toggle" -> "toggle_flip"
    [] site = "land" -> "sd_clear"

\* (perf_counter() - start) > self.MAX_TIMEOUT
NeverTimedOut(e) == FALSE

TimedOut(e) == e > MAX_TIMEOUT

\* one evaluation of the wait loop's condition and of its timeout test
SendWait ==
  /\ pc = "sc_wait"
  /\ IF Last(cmd_log).resp # None THEN pc' = "sc_ret"
     ELSE TimedOut(elapsed) /\ pc' = "sc_mark"
  /\ UNCHANGED <<ret, res, attempts, elapsed, flagVars, cmd_log, sockClosed,
                 last_state, last_frame, recvVars, state_pc, video_pc, dgrams, garbled,
                 ticks, rcVars, histVars, timeVars, late>>

\* self.cmd_log[-1][1] = "TIMED OUT"
NotMarked(log) == log

Marked(log) == [log EXCEPT ![Len(log)].resp = TIMED_OUT]

\* the timeout branch: the mark, and return None
SendMark ==
  /\ pc = "sc_mark"
  /\ cmd_log' = Marked(cmd_log)
  /\ late' = FALSE
  /\ res' = None
  /\ pc' = After(ret)
  /\ ret' = "none"
  /\ elapsed' = 0
  /\ UNCHANGED <<attempts, flagVars, sockClosed, last_state, last_frame,
                 recvVars, state_pc, video_pc, dgrams, garbled, ticks, rcVars, histVars, timeVars>>

\* return self.cmd_log[-1][1]
SendReturn ==
  /\ pc = "sc_ret"
  /\ res' = Last(cmd_log).resp
  /\ pc' = After(ret)
  /\ ret' = "none"
  /\ elapsed' = 0
  /\ UNCHANGED <<attempts, flagVars, cmd_log, sockClosed, last_state,
                 last_frame, recvVars, state_pc, video_pc, dgrams, garbled, ticks,
                 rcVars, histVars, timeVars, late>>

\* perf_counter() advances by TickSeconds while a command waits, far more than
\* fly's frame_delta when the command is one of fly's loop
ClockTick ==
  /\ pc = "sc_wait"
  /\ elapsed <= MAX_TIMEOUT
  /\ elapsed' = elapsed + TickSeconds
  /\ spaced' = IF ret = "toggle" THEN TRUE ELSE spaced
  /\ UNCHANGED <<pc, ret, res, attempts, flagVars, cmd_log, sockClosed,
                 last_state, last_frame, recvVars, state_pc, video_pc, dgrams, garbled,
                 ticks, rcVars, histVars, frame_due, late>>

\* ------------------------------------------- TelloRC.fly / connect
\* fly() finds the client not connected; connect() sets active and starts
\* the command receiver, which enters recvfrom
ConnectBegin ==
  /\ pc = "fly"
  /\ ~connected
  /\ active' = TRUE
  /\ recv_pc' = Top(TRUE)
  /\ attempts' = 0
  /\ pc' = "conn_loop"
  /\ UNCHANGED <<ret, res, elapsed, stream_active, connected, flying, cmd_log,
                 sockClosed, last_state, last_frame, recv_tgt, recv_val,
                 state_pc, video_pc, dgrams, garbled, ticks, rcVars, histVars, timeVars, late>>

\* where fly goes on when connect() returned False
IgnoreFailure == "fly_loop"

ConnectFailed == "failed"

\* __connect: the next iteration of the for loop, or its exhaustion (connect
\* returns False and fly returns)
ConnectAttempt ==
  /\ pc = "conn_loop"
  /\ IF attempts < ConnectAttempts
       THEN /\ attempts' = attempts + 1
            /\ SendCmd("command", "connect")
       ELSE /\ pc' = ConnectFailed
            /\ UNCHANGED <<ret, attempts, elapsed, cmd_log, late>>
  /\ UNCHANGED <<res, flagVars, sockClosed, last_state, last_frame, recvVars,
                 state_pc, video_pc, dgrams, garbled, ticks, rcVars, histVars,
                 timeVars>>

\* res is not None and res == 'ok'
AnyResponse(r) == r # None

IsOk(r) == r # None /\ r = OK

\* __connect: the test of the attempt's result; on 'ok' connected is set and
\* "streamon" sent
ConnectCheck ==
  /\ pc = "conn_check"
  /\ IF IsOk(res)
       THEN /\ connected' = TRUE
            /\ SendCmd("streamon", "streamon")
       ELSE /\ pc' = "conn_loop"
            /\ UNCHANGED <<connected, cmd_log, late, elapsed, ret>>
  /\ UNCHANGED <<res, attempts, active, stream_active, flying, sockClosed,
                 last_state, last_frame, recvVars, state_pc, video_pc, dgrams,
                 garbled, ticks, rcVars, histVars, timeVars>>

\* __connect returns True; video_start() and self.state_thread.start();
\* connect returns True, fly reads run_timer = perf_counter() and enters its
\* loop
ConnectFinish ==
  /\ pc = "conn_finish"
  /\ stream_active' = TRUE
  /\ video_pc' = "reading"
  /\ state_pc' = Top(active)
  /\ frame_due' = FALSE
  /\ spaced' = FALSE
  /\ pc' = "fly_loop"
  /\ UNCHANGED <<ret, res, attempts, elapsed, active, connected, flying,
                 cmd_log, sockClosed, last_state, last_frame, recvVars,
                 dgrams, garbled, ticks, rcVars, histVars, late>>

\* if self.flying: self.__send_cmd("land")
NeverLands(f) == FALSE

LandsFirst(f) == f

\* running = False ends fly's loop; the entry of shutdown()
ShutdownBegin ==
  IF connected
    THEN IF LandsFirst(flying)
           THEN SendCmd("land", "land")
           ELSE pc' = "sd_clear" /\ UNCHANGED <<cmd_log, late, elapsed, ret>>
    ELSE pc' = "done" /\ UNCHANGED <<cmd_log, late, elapsed, ret>>

\* an iteration of fly's loop that finds delta < frame_delta does nothing;
\* meanwhile one frame_delta of wall-clock time passes
FrameClock ==
  /\ pc = "fly_loop"
  /\ ~frame_due \/ ~spaced
  /\ frame_due' = TRUE
  /\ spaced' = TRUE
  /\ UNCHANGED <<mainVars, flagVars, cmd_log, sockClosed, last_state,
                 last_frame, recvVars, state_pc, video_pc, dgrams, garbled, ticks,
                 rcVars, histVars, late>>

\* one tick of fly's loop, taken when delta >= frame_delta: update, the RC
\* datagram, next_action, the rendering and the dispatch of the action;
\* run_timer is not read again, so delta stays >= frame_delta
FlyTick ==
  /\ pc = "fly_loop"
  /\ ticks < MaxTicks
  /\ frame_due
  /\ spaced' = FALSE
  /\ ticks' = ticks + 1
  /\ \E devs \in TickDevices :
     LET st == SwitchModes(MapperState, devs) IN
     /\ mode' = st.mode /\ map' = st.map /\ action_map' = st.action_map
     /\ \E inp \in Reads(st.map, TickPressed, TickAxes) :
          /\ held_map' = HeldNext(st, inp)
          /\ current_rc' = RcOf(st.map, held_map', inp.axes, acc_time, aggression)
     /\ rc_sent' = [sent |-> TRUE, vals |-> current_rc']
     /\ \E evs \in TickEvents :
       LET q1 == DetectActions(st.mode, st.action_map, action_q, evs)
           na == NextActionOf(q1)
           action == na[1]
       IN /\ action_q' = na[2]
          /\ IF RenderFails(last_state)
               THEN pc' = "crashed" /\ UNCHANGED <<cmd_log, late, elapsed, ret>>
             ELSE IF action = "TAKEOFF"
               THEN SendCmd(IF flying THEN "land" ELSE "takeoff", "toggle")
             ELSE IF action = "PICTURE"
               THEN /\ pc' = IF last_frame = NoFrame THEN "crashed" ELSE "fly_loop"
                    /\ UNCHANGED <<cmd_log, late, elapsed, ret>>
             ELSE IF action = "STOP"
               THEN ShutdownBegin
             ELSE pc' = "fly_loop" /\ UNCHANGED <<cmd_log, late, elapsed, ret>>
  /\ UNCHANGED <<res, attempts, flagVars, sockClosed, last_state, last_frame,
                 recvVars, state_pc, video_pc, dgrams, garbled, histVars, aggression,
                 acc_time, frame_due>>

\* self.flying = not self.flying, r being what __send_cmd returned
FlipIfOk(f, r) == IF r = OK THEN ~f ELSE f

Flipped(f, r) == ~f

ToggleFlip ==
  /\ pc = "toggle_flip"
  /\ flying' = Flipped(flying, res)
  /\ pc' = "fly_loop"
  /\ UNCHANGED <<ret, res, attempts, elapsed, active, stream_active, connected,
                 cmd_log, sockClosed, last_state, last_frame, recvVars,
                 state_pc, video_pc, dgrams, garbled, ticks, rcVars, histVars, timeVars, late>>

\* ------------------------------------------------- TelloRC.shutdown
\* self.active = False; self.stream_active = False
ShutdownClear ==
  /\ pc = "sd_clear"
  /\ active' = FALSE
  /\ stream_active' = FALSE
  /\ pc' = "sd_close"
  /\ UNCHANGED <<ret, res, attempts, elapsed, connected, flying, cmd_log,
                 sockClosed, last_state, last_frame, recvVars, state_pc,
                 video_pc, dgrams, garbled, ticks, rcVars, histVars, timeVars, late>>

\* self.send_channel.close(): a recvfrom the receiver is in, or is about to
\* enter, fails with OSError (the handler then goes to the top of the loop)
\* or stays blocked; self.last_frame = None; sleep(1)
ShutdownClose ==
  /\ pc = "sd_close"
  /\ sockClosed' = TRUE
  /\ \/ recv_pc' = recv_pc
     \/ recv_pc = "blocked" /\ recv_pc' = Top(active)
  /\ last_frame' = NoFrame
  /\ pc' = "sd_join"
  /\ UNCHANGED <<ret, res, attempts, elapsed, flagVars, cmd_log, last_state,
                 recv_tgt, recv_val, state_pc, video_pc, dgrams, garbled, ticks,
                 rcVars, histVars, timeVars, late>>

\* self.receive_thread.join(); self.video_thread.join(); pg.quit(); shutdown
\* and fly return
ShutdownJoin ==
  /\ pc = "sd_join"
  /\ recv_pc \in {"done", "dead"}
  /\ video_pc = "done"
  /\ pc' = "done"
  /\ UNCHANGED <<ret, res, attempts, elapsed, flagVars, cmd_log, sockClosed,
                 last_state, last_frame, recvVars, state_pc, video_pc, dgrams, garbled,
                 ticks, rcVars, histVars, timeVars, late>>

\* shutdown() called once more after fly() and its shutdown() have returned:
\* connected and flying are as the first call left them; the receivers have
\* ended, so the joins return at once; __send_cmd on the closed socket appends
\* its record and raises OSError at sendto
ShutdownAgain ==
  /\ pc = "done"
  /\ IF connected
       THEN IF LandsFirst(flying)
              THEN /\ SendCmd("land", "land")
                   /\ UNCHANGED <<active, stream_active, sockClosed, last_frame>>
              ELSE /\ active' = FALSE
                   /\ stream_active' = FALSE
                   /\ sockClosed' = TRUE
                   /\ last_frame' = NoFrame
                   /\ pc' = "repeated"
                   /\ UNCHANGED <<cmd_log, late, elapsed, ret>>
       ELSE /\ pc' = "repeated"
            /\ UNCHANGED <<cmd_log, late, elapsed, ret, active, stream_active,
                           sockClosed, last_frame>>
  /\ UNCHANGED <<res, attempts, connected, flying, last_state, recvVars,
                 state_pc, video_pc, dgrams, garbled, ticks, rcVars, histVars,
                 timeVars>>

\* ------------------------------------------------- TelloRC.__receive
\* whether the text v, stored as the response of the last record of log, can be
\* the drone's reply to an earlier command: only if it is a datagram's text
\* and an earlier command was given up before its reply came
LateChoices(log, v) ==
  IF v # DECODE_ERROR /\ \E i \in 1..(Len(log) - 1) : log[i].resp = TIMED_OUT
    THEN BOOLEAN ELSE {FALSE}

\* recvfrom returns a datagram: decode, strip and the evaluation of
\* self.cmd_log[-1] (IndexError on an empty log ends the thread); on
\* UnicodeDecodeError the handler's test of active and its evaluation of
\* self.cmd_log[-1]
RecvDeliver ==
  /\ ~Exited
  /\ recv_pc = "blocked"
  /\ dgrams < MaxDgrams
  /\ dgrams' = dgrams + 1
  /\ \E d \in CmdPayloads :
       /\ IF Decodable(d)
            THEN IF cmd_log = <<>>
                   THEN recv_pc' = "dead" /\ UNCHANGED <<recv_tgt, recv_val>>
                   ELSE /\ recv_tgt' = Len(cmd_log)
                        /\ recv_val' = Strip(d)
                        /\ recv_pc' = "store"
            ELSE IF ~active
                   THEN recv_pc' = Top(active) /\ UNCHANGED <<recv_tgt, recv_val>>
                 ELSE IF cmd_log = <<>>
                   THEN recv_pc' = "dead" /\ UNCHANGED <<recv_tgt, recv_val>>
                 ELSE /\ recv_tgt' = Len(cmd_log)
                      /\ recv_val' = DECODE_ERROR
                      /\ recv_pc' = "store"
  /\ UNCHANGED <<mainVars, flagVars, cmd_log, sockClosed, last_state,
                 last_frame, state_pc, video_pc, garbled, ticks, rcVars, histVars,
                 timeVars, late>>

\* the store into the record's response, and the next test of self.active
RecvStore ==
  /\ ~Exited
  /\ recv_pc = "store"
  /\ cmd_log' = [cmd_log EXCEPT ![recv_tgt].resp = recv_val]
  /\ IF recv_tgt = Len(cmd_log)
       THEN late' \in LateChoices(cmd_log, recv_val)
       ELSE late' = late
  /\ recv_pc' = Top(active)
  /\ recv_tgt' = 0
  /\ recv_val' = None
  /\ UNCHANGED <<mainVars, flagVars, sockClosed, last_state, last_frame,
                 state_pc, video_pc, dgrams, garbled, ticks, rcVars, histVars, timeVars>>

\* -------------------------------------------- TelloRC.__receive_state
\* a telemetry datagram arrives and is handled, up to the next test of
\* self.active; the ValueError of label, val = item.split(':') is caught by
\* no handler and ends the thread; the handler of UnicodeDecodeError writes
\* "Decode Error" into the last record of the command log (an undecodable
\* datagram counts among the MaxDgrams, or among the further ones of garbled)
StateRecv ==
  /\ ~Exited
  /\ state_pc = "blocked"
  /\ \E d \in TelemInputs :
       IF ~Decodable(d)
         THEN /\ state_pc' = Top(active)
              /\ cmd_log' = IF active
                              THEN [cmd_log EXCEPT ![Len(cmd_log)].resp = DECODE_ERROR]
                              ELSE cmd_log
              /\ late' = (late /\ ~active)
              /\ \/ dgrams < MaxDgrams /\ dgrams' = dgrams + 1 /\ garbled' = garbled
                 \/ garbled > 0 /\ garbled' = garbled - 1 /\ dgrams' = dgrams
              /\ UNCHANGED last_state
         ELSE LET r == ParseState(d)
              IN /\ state_pc' = IF r.err THEN "dead" ELSE Top(active)
                 /\ last_state' = IF r.err THEN last_state
                                  ELSE [some |-> TRUE, map |-> r.map]
                 /\ UNCHANGED <<cmd_log, late, dgrams, garbled>>
  /\ UNCHANGED <<mainVars, flagVars, sockClosed, last_frame, recvVars,
                 video_pc, ticks, rcVars, histVars, timeVars>>

\* -------------------------------------------- TelloRC.__receive_video
\* ret, img = self.video_stream.read(); if ret: self.last_frame = img; then
\* the next test of self.stream_active
VideoRead ==
  /\ ~Exited
  /\ video_pc = "reading"
  /\ \E got \in BOOLEAN : last_frame' = IF got THEN "img" ELSE last_frame
  /\ video_pc' = IF stream_active THEN "reading" ELSE "done"
  /\ UNCHANGED <<mainVars, flagVars, cmd_log, sockClosed, last_state,
                 recvVars, state_pc, dgrams, garbled, ticks, rcVars, histVars, timeVars, late>>

\* ------------------------------------- RemoteControl used on its own
sessionVars == <<mainVars, flagVars, cmd_log, sockClosed, last_state,
                 last_frame, recvVars, state_pc, video_pc, dgrams, garbled, ticks,
                 timeVars, late>>

\* the action an input-down event stands for in the mode it belongs to
ActionName(ev) ==
  IF ev.type = "KEYDOWN"
    THEN (CASE ev.code = K_SPACE -> "TAKEOFF" [] ev.code = K_p -> "PICTURE"
            [] ev.code = K_ESCAPE -> "STOP" [] OTHER -> NoAction)
    ELSE (CASE ev.code = 6 -> "TAKEOFF" [] ev.code = 15 -> "PICTURE"
            [] ev.code = 1 -> "STOP" [] OTHER -> NoAction)

IsMatched(m, ev) ==
  /\ (m = "keyboard") = (ev.type = "KEYDOWN")
  /\ ActionName(ev) # NoAction

RECURSIVE MatchedNames(_, _)
MatchedNames(m, evs) ==
  IF evs = <<>> THEN <<>>
  ELSE (IF IsMatched(m, Head(evs)) THEN <<ActionName(Head(evs))>> ELSE <<>>)
         \o MatchedNames(m, Tail(evs))

\* update(delta) for the device events devs, input-down events one of evSeqs
\* and the keys and stick read as one of pressedSets / axisSets
Update(devs, evSeqs, pressedSets, axisSets) ==
  LET st == SwitchModes(MapperState, devs) IN
  \E inp \in Reads(st.map, pressedSets, axisSets) :
    LET c == Computed(st, inp, acc_time, aggression)
    IN /\ mode' = st.mode /\ map' = st.map /\ action_map' = st.action_map
       /\ held_map' = c.held_map /\ since_switch' = c.since
       /\ current_rc' = c.rc
       /\ \E evs \in evSeqs :
            /\ action_q' = DetectActions(st.mode, st.action_map, action_q, evs)
            /\ matched' = matched \o MatchedNames(st.mode, evs)
       /\ lastRet' = [op |-> "update", val |-> NoAction, before |-> Len(action_q)]

\* update(delta) with no key held and the stick at rest
RCUpdate ==
  /\ calls < MaxCalls
  /\ calls' = calls + 1
  /\ \E devs \in SeqsUpTo(DeviceEvents, MaxEvents) :
       Update(devs, SeqsUpTo(DownEvents, MaxEvents), {{}}, {AxisRest})
  /\ UNCHANGED <<sessionVars, returned, aggression, acc_time, rc_sent>>

\* update(delta) with keys held and the stick deflected, and no input-down
\* event
CtlUpdate ==
  /\ calls < MaxCalls
  /\ calls' = calls + 1
  /\ \E devs \in SeqsUpTo(DeviceEvents, MaxEvents) :
       Update(devs, {<<>>}, PressedSets, AxisInputs)
  /\ UNCHANGED <<sessionVars, returned, aggression, acc_time, rc_sent>>

\* next_action()
RCNextAction ==
  /\ calls < MaxCalls
  /\ calls' = calls + 1
  /\ LET na == NextActionOf(action_q)
     IN /\ action_q' = na[2]
        /\ lastRet' = [op |-> "next", val |-> na[1], before |-> Len(action_q)]
        /\ returned' = IF na[1] = NoAction THEN returned ELSE Append(returned, na[1])
  /\ UNCHANGED <<sessionVars, mode, map, action_map, matched, ctlVars, since_switch>>

\* the caller's __send_rc(control.get_rc())
RCSendRc ==
  /\ calls < MaxCalls
  /\ calls' = calls + 1
  /\ rc_sent' = [sent |-> TRUE, vals |-> current_rc]
  /\ UNCHANGED <<sessionVars, mode, map, action_map, action_q, aggression,
                 acc_time, held_map, current_rc, since_switch, matched, returned,
                 lastRet>>

NextRC == RCUpdate \/ RCNextAction

SpecRC == Init /\ [][NextRC]_vars

\* the mapper as the source of control vectors
NextCtl == CtlUpdate \/ RCSendRc

SpecCtl == InitRC /\ [][NextCtl]_vars

\* ----------------------------------------------------- the specification
MainStep ==
  \/ ConnectBegin \/ ConnectAttempt \/ ConnectCheck \/ ConnectFinish
  \/ SendWait \/ SendMark \/ SendReturn
  \/ FlyTick \/ ToggleFlip
  \/ ShutdownClear \/ ShutdownClose \/ ShutdownJoin

Next ==
  \/ ConnectBegin \/ ConnectAttempt \/ ConnectCheck \/ ConnectFinish
  \/ SendWait \/ SendMark \/ SendReturn \/ ClockTick
  \/ FrameClock \/ FlyTick \/ ToggleFlip
  \/ ShutdownClear \/ ShutdownClose \/ ShutdownJoin
  \/ RecvDeliver \/ RecvStore
  \/ StateRecv
  \/ VideoRead

Spec == Init /\ [][Next]_vars

SpecGarbled == InitGarbled /\ [][Next]_vars

\* a script that calls shutdown() again after fly() has returned
NextRepeat == Next \/ ShutdownAgain

SpecRepeat == Init /\ [][NextRepeat]_vars

\* every thread that can take a step takes one, the clock advances and a frame
\* read returns; the arrival of datagrams is left to the drone and the network
FairSpec ==
  /\ Spec
  /\ WF_vars(MainStep) /\ WF_vars(ClockTick) /\ WF_vars(FrameClock)
  /\ WF_vars(RecvStore) /\ WF_vars(VideoRead)

\* ------------------------------------------------------------- claims
InSend == pc \in {"sc_wait", "sc_mark", "sc_ret"}

Count(log, m) == Cardinality({i \in 1..Len(log) : log[i].msg = m})

Unset(log) == {i \in 1..Len(log) : log[i].resp = None}

\* C1: every call of __send_cmd returns; the wait never lasts longer than the
\* timeout and one clock reading, and the timeout branch marks the record
\* "TIMED OUT" and returns None
C1_SendReturns ==
  /\ [](InSend => <>~InSend)
  /\ [](elapsed <= MAX_TIMEOUT + TickSeconds)
  /\ [][pc = "sc_mark" /\ pc' # "sc_mark"
          => res' = None /\ Last(cmd_log').resp = TIMED_OUT]_vars

C1_Witness ==
  /\ pc = "conn_check" /\ res = None
  /\ Last(cmd_log).resp = TIMED_OUT

\* C2: at most one record of the command log has no response, that record is
\* the last one, and whenever the main thread is outside __send_cmd (where the
\* next call can start) every record has its response
C2_OneInFlight ==
  /\ Cardinality(Unset(cmd_log)) <= 1
  /\ Unset(cmd_log) \subseteq {Len(cmd_log)}
  /\ pc \notin {"sc_wait", "sc_mark", "crashed"} => Unset(cmd_log) = {}

C2_Witness ==
  /\ Len(cmd_log) >= 2
  /\ Unset(cmd_log) = {Len(cmd_log)}
  /\ cmd_log[1].resp = TIMED_OUT

\* C3: "command" is sent at most 5 times and never again after an attempt
\* returned "ok"; that attempt makes the client connected, and "streamon" is
\* sent exactly once, after connected was set and resolved before the telemetry
\* and video receivers start
C3_Connect ==
  /\ Count(cmd_log, "command") = attempts
  /\ attempts <= ConnectAttempts
  /\ \A i \in 1..Len(cmd_log) : cmd_log[i].msg = "command" <=> i <= attempts
  /\ (pc \in {"conn_loop", "failed"} /\ attempts > 0) => res # OK
  /\ ret = "streamon" => res = OK
  /\ Count(cmd_log, "streamon") = (IF connected THEN 1 ELSE 0)
  /\ connected => cmd_log[attempts + 1].msg = "streamon"
  /\ (state_pc # "idle" \/ video_pc # "idle" \/ stream_active)
       => connected /\ cmd_log[attempts + 1].resp # None
  /\ pc \in {"conn_finish", "fly_loop", "toggle_flip", "sd_clear", "sd_close",
             "sd_join", "done"} => connected

C3_Witness ==
  /\ pc = "fly_loop" /\ connected /\ attempts = 3
  /\ cmd_log[1].resp = TIMED_OUT /\ cmd_log[2].resp = TIMED_OUT
  /\ cmd_log[3] = [msg |-> "command", resp |-> OK]
  /\ Count(cmd_log, "streamon") = 1
  /\ state_pc # "idle" /\ video_pc # "idle"

\* C4: while no connect attempt has returned "ok" the client is not connected,
\* no "streamon", "takeoff" or "land" is sent, no receiver but the command
\* receiver runs and the fly loop makes no tick; after the fifth such attempt
\* connect and fly return
C4_ConnectFails ==
  /\ ~connected =>
       /\ \A i \in 1..Len(cmd_log) : cmd_log[i].msg = "command"
       /\ state_pc = "idle" /\ video_pc = "idle" /\ ~stream_active
       /\ ticks = 0 /\ ~flying
       /\ pc \in {"fly", "conn_loop", "sc_wait", "sc_mark", "sc_ret",
                  "conn_check", "failed"}
  /\ pc = "failed" =>
       /\ ~connected /\ attempts = ConnectAttempts /\ res # OK
       /\ Len(cmd_log) = ConnectAttempts

C4_Witness ==
  /\ pc = "failed"
  /\ \E i \in 1..Len(cmd_log) : cmd_log[i].resp = <<"error">>
  /\ \E i \in 1..Len(cmd_log) : cmd_log[i].resp = TIMED_OUT

InShutdown == pc \in {"sd_clear", "sd_close", "sd_join", "done"}

\* C5: shutdown sends "land" exactly when the client is flying, and that call
\* has returned (its record holds a response or the timeout mark) before
\* active is cleared and the command socket closed, the client still connected
C5_LandBeforeClear ==
  /\ ret = "land" => flying /\ active /\ stream_active /\ ~sockClosed /\ connected
  /\ (InShutdown /\ flying) =>
        Last(cmd_log).msg = "land" /\ Last(cmd_log).resp # None
  /\ (InShutdown /\ ~flying) => Count(cmd_log, "land") = Count(cmd_log, "takeoff")
  /\ (~active /\ pc # "fly") => InShutdown
  /\ sockClosed => ~active

C5_Witness ==
  /\ pc = "sd_join" /\ flying /\ sockClosed /\ ~active
  /\ Last(cmd_log) = [msg |-> "land", resp |-> TIMED_OUT]

Terminated(t) == t \in {"done", "dead"}

\* C6: once shutdown has cleared the flags and closed the command socket, the
\* three receivers terminate and shutdown returns
C6_ReceiversTerminate ==
  [](sockClosed => <>(/\ Terminated(recv_pc) /\ Terminated(state_pc)
                      /\ Terminated(video_pc) /\ pc = "done"))

\* C7: the command receiver, once started, ends only after active is cleared
C7_ReceiverSurvives == Terminated(recv_pc) => ~active

\* C8: a telemetry datagram with a malformed token does not end the telemetry
\* receiver
C8_MalformedSkipped == state_pc # "dead"

BatTime == {<< <<"bat">>, <<"87">> >>, << <<"time">>, <<"120">> >>}
Bat120 == {<< <<"bat">>, <<"120">> >>}

\* the mappings the well-formed telemetry datagrams stand for
ExpectedSnapshots == {{}, BatTime, Bat120}

\* C9: last_state is None or the complete mapping of one well-formed telemetry
\* datagram; "bat:87;time:120;" gives {bat: 87, time: 120} and "" gives {}
C9_SnapshotWhole ==
  /\ ~last_state.some => last_state.map = {}
  /\ last_state.some => last_state.map \in ExpectedSnapshots
  /\ ParseItems(Split(Strip(<<"bat", ":", "87", ";", "time", ":", "120", ";">>), ";"), {})
       = [err |-> FALSE, map |-> BatTime]
  /\ ParseItems(Split(Strip(<<>>), ";"), {}) = [err |-> FALSE, map |-> {}]

C9_Witness == last_state.some /\ last_state.map = Bat120 /\ state_pc = "blocked"

\* C10: the values next_action() returned, followed by the queue, are the
\* matched events in arrival order; next_action() returns None exactly on an
\* empty queue and takes one action off a non-empty one
C10_Fifo ==
  /\ returned \o action_q = matched
  /\ lastRet.op = "next" =>
       /\ (lastRet.val = NoAction) <=> (lastRet.before = 0)
       /\ Len(action_q) = (IF lastRet.before = 0 THEN 0 ELSE lastRet.before - 1)

C10_Witness ==
  /\ returned # <<>> /\ action_q # <<>>
  /\ returned[1] # action_q[1]

InRange(v) == \A i \in 1..4 : v[i] \in -100..100

\* C11: every component of the vector get_rc() returns, and of the vector put
\* in an "rc ..." datagram, is an integer in -100..100, in both modes, for held
\* keys and for stick readings within and beyond the nominal range; so is the
\* rotation computed from the two triggers
C11_RcRange ==
  /\ InRange(current_rc)
  /\ InRange(rc_sent.vals)
  /\ \A x \in AxisInputs :
       Align(TriggerDiff(Xbox_FPS_Map, x), 2000) \in -100..100

C11_Witness ==
  /\ mode = "joystick" /\ rc_sent.sent
  /\ rc_sent.vals = <<100, 100, 100, 100>>
  /\ current_rc = <<100, 100, 29, 30>>

TablesOf(m) ==
  IF m = "keyboard" THEN <<"_Keyboard_Map", "_Keyboard_Actions">>
  ELSE <<"_Xbox_FPS_Map", "_Xbox_Action">>

CurveBases == {2, 3, 10}
CurveRamps == 1..4

C13_FixedRate == [][ticks' = ticks + 1 => spaced]_vars

\* C15: no step changes a record of the command log other than its last one:
\* once a newer record is appended, the responses of the earlier records stay
\* as they are
C15_OnlyTail ==
  [][\A i \in 1..(Len(cmd_log) - 1) : cmd_log'[i] = cmd_log[i]]_vars

\* C16: each piece of shared state has one writing receiver: a step of the
\* telemetry receiver leaves the command log as it is; a response in the log
\* is written only by the command receiver or by __send_cmd's timeout mark,
\* the telemetry snapshot only by the telemetry receiver, and a frame is
\* stored only by the video receiver (shutdown clears it)
C16_SingleWriter ==
  [][/\ StateRecv => cmd_log' = cmd_log
     /\ (Len(cmd_log') = Len(cmd_log) /\ cmd_log' # cmd_log)
          => (RecvStore \/ SendMark)
     /\ last_state' # last_state => StateRecv
     /\ last_frame' # last_frame => (VideoRead \/ ShutdownClose)]_vars

\* the land command of shutdown() is in the log: it is waiting, or shutdown
\* went on after it (flying is never cleared)
ShutdownLanded ==
  ret = "land" \/ (flying /\ InShutdown)

\* the messages of the commands fly issued for TAKEOFF actions, in order: the
\* records after the connect attempts and "streamon"
ToggleCmds ==
  LET last == Len(cmd_log) - (IF ShutdownLanded THEN 1 ELSE 0)
  IN [i \in 1..(last - (attempts + 1)) |-> cmd_log[attempts + 1 + i].msg]

\* C17: the commands issued for TAKEOFF actions alternate takeoff, land,
\* takeoff, ... starting with takeoff, at most one per tick; flying is flipped
\* after each of them whatever its response, so flying holds exactly when an
\* odd number of them has returned
C17_Alternates ==
  (connected /\ Len(cmd_log) > attempts) =>
    LET n == Len(ToggleCmds)
        back == n - (IF ret = "toggle" \/ pc = "toggle_flip" THEN 1 ELSE 0)
    IN /\ \A i \in 1..n :
            ToggleCmds[i] = (IF i % 2 = 1 THEN "takeoff" ELSE "land")
       /\ flying <=> (back % 2 = 1)
       /\ n <= ticks

C17_Witness ==
  /\ pc = "fly_loop" /\ ~flying
  /\ ToggleCmds = <<"takeoff", "land">>
  /\ cmd_log[attempts + 2].resp = TIMED_OUT

\* fly left its loop through running = False: shutdown() is waiting for its
\* land or went on after it
Stopped == ret = "land" \/ InShutdown

\* C18: once connected, fly leaves its loop only into shutdown(), on a STOP
\* action; a tick pops at most one action; after that no tick runs (no "rc ..."
\* datagram, no pop, no frame clock) and no command is added to the log (the
\* land of shutdown() is added by the step that leaves the loop)
C18_StopOnly ==
  [][/\ (pc = "fly_loop" /\ pc' # "fly_loop" /\ ret' # "toggle") => Stopped'
     /\ ticks' = ticks + 1 => Len(action_q') >= Len(action_q) - 1
     /\ Stopped => /\ ticks' = ticks /\ rc_sent' = rc_sent
                   /\ action_q' = action_q
                   /\ Len(cmd_log') = Len(cmd_log)]_vars

\* C19: once shutdown() has returned the latest frame is gone: get_frame()
\* returns None
C19_FrameDiscarded == pc = "done" => last_frame = NoFrame

\* C20: a response held by a record of the command log is the drone's reply to
\* that record's own message, never the reply to an earlier command; so the
\* "ok" on which connect() reports success answers the attempt in flight
C20_Attributed == ~late

\* C21: what __send_cmd returns agrees with its record: the "TIMED OUT" mark
\* is written only over a response that is still None (a response the
\* receiver has stored is never overwritten) and None is then returned; a
\* returned text is a response and is the one the record holds
C21_ResultAgrees ==
  [][/\ SendMark => /\ Last(cmd_log).resp = None
                    /\ res' = None
                    /\ Last(cmd_log').resp = TIMED_OUT
     /\ SendReturn => /\ res' \notin {None, TIMED_OUT}
                      /\ res' = Last(cmd_log').resp]_vars

\* C22: shutdown() can be repeated: when the first shutdown() has returned
\* the client is no longer connected, and a second shutdown() returns without
\* sending a command, without using the closed socket and without changing
\* any state
C22_ShutdownRepeatable ==
  [][/\ pc' = "done" => ~connected'
     /\ ShutdownAgain =>
          /\ pc' = "repeated"
          /\ UNCHANGED <<ret, res, attempts, elapsed, flagVars, cmd_log,
                         sockClosed, last_state, last_frame, recvVars, state_pc,
                         video_pc, dgrams, garbled, ticks, rcVars, histVars,
                         timeVars, late>>]_vars

====
